---- MODULE Spec2Model ----
(***************************************************************************)
(* postgres_money: the Money value type (a wrapped i64 of cents), its      *)
(* arithmetic operators, its Display rendering and Money::parse_str.       *)
(*                                                                         *)
(* TLC's integers are 32 bits wide, Money's are 64: every i64 of the       *)
(* program is modelled as a sign and a sequence of decimal digits, and the *)
(* arithmetic on them is exact.                                            *)
(***************************************************************************)
EXTENDS Integers, Sequences, FiniteSets, TLC

(***************************************************************************)
(* Natural numbers of any size: limbs of four decimal digits, most         *)
(* significant first, no leading zero limb, zero is <<0>>.                 *)
(***************************************************************************)
Radix == 10000

RECURSIVE StripZeros(_)
StripZeros(d) ==
    IF Len(d) = 0 THEN <<0>>
    ELSE IF Len(d) > 1 /\ Head(d) = 0 THEN StripZeros(Tail(d))
    ELSE d

NatIsZero(a) == a = <<0>>

NatLess(a, b) ==
    IF Len(a) # Len(b) THEN Len(a) < Len(b)
    ELSE LET diff == {i \in 1..Len(a) : a[i] # b[i]}
         IN  /\ diff # {}
             /\ LET m == CHOOSE i \in diff : \A j \in diff : i <= j
                IN  a[m] < b[m]

NatLeq(a, b) == a = b \/ NatLess(a, b)

\* Limb i of a counted from the least significant (i = 1), 0 beyond its length.
LimbAt(a, i) == IF i <= Len(a) THEN a[Len(a) + 1 - i] ELSE 0

\* The limbs of a + b + c from place i upward.
RECURSIVE AddFrom(_, _, _, _)
AddFrom(a, b, i, c) ==
    IF i > Len(a) /\ i > Len(b) THEN <<c>>
    ELSE LET s == LimbAt(a, i) + LimbAt(b, i) + c
         IN  AddFrom(a, b, i + 1, s \div Radix) \o <<s % Radix>>

NatAdd(a, b) == StripZeros(AddFrom(a, b, 1, 0))

\* The limbs of a - b - borrow from place i upward, for a >= b.
RECURSIVE SubFrom(_, _, _, _)
SubFrom(a, b, i, borrow) ==
    IF i > Len(a) THEN <<>>
    ELSE LET s == LimbAt(a, i) - LimbAt(b, i) - borrow
         IN  SubFrom(a, b, i + 1, IF s < 0 THEN 1 ELSE 0) \o <<s % Radix>>

\* a - b for a >= b.
NatSub(a, b) == StripZeros(SubFrom(a, b, 1, 0))

\* The limbs of a * m + c from place i upward, for 0 <= m <= Radix.
RECURSIVE MulFrom(_, _, _, _)
MulFrom(a, m, i, c) ==
    IF i > Len(a) THEN <<c>>
    ELSE LET s == LimbAt(a, i) * m + c
         IN  MulFrom(a, m, i + 1, s \div Radix) \o <<s % Radix>>

NatMulSmall(a, m) == StripZeros(MulFrom(a, m, 1, 0))

\* acc * Radix^(limbs of b left) + a * (the limbs of b from i on).
RECURSIVE MulAcc(_, _, _, _)
MulAcc(acc, a, b, i) ==
    IF i > Len(b) \/ Len(acc) = 0 THEN acc
    ELSE MulAcc(NatAdd(StripZeros(acc \o <<0>>), NatMulSmall(a, b[i])), a, b, i + 1)

NatMul(a, b) == MulAcc(<<0>>, a, b, 1)

\* The largest q in lo..(hi - 1) with b * q <= r, given b * lo <= r < b * hi.
RECURSIVE QuotLimb(_, _, _, _)
QuotLimb(r, b, lo, hi) ==
    IF hi - lo <= 1 THEN lo
    ELSE LET mid == (lo + hi) \div 2
         IN  IF NatLeq(NatMulSmall(b, mid), r)
             THEN QuotLimb(r, b, mid, hi)
             ELSE QuotLimb(r, b, lo, mid)

\* Long division: the limbs of the dividend brought down one at a time.
RECURSIVE DivAcc(_, _, _, _)
DivAcc(st, a, b, i) ==
    IF i > Len(a) THEN [q |-> StripZeros(st.q), r |-> st.r]
    ELSE LET r1 == StripZeros(st.r \o <<a[i]>>)
             q1 == IF NatLess(r1, b) THEN 0 ELSE QuotLimb(r1, b, 1, Radix)
         IN  DivAcc([q |-> st.q \o <<q1>>, r |-> NatSub(r1, NatMulSmall(b, q1))],
                    a, b, i + 1)

\* Quotient and remainder of a by b, for b # 0.
NatDivMod(a, b) ==
    IF NatLess(a, b) THEN [q |-> <<0>>, r |-> a]
    ELSE DivAcc([q |-> <<>>, r |-> <<0>>], a, b, 1)

RECURSIVE NatOf(_)
NatOf(n) == IF n < Radix THEN <<n>> ELSE NatOf(n \div Radix) \o <<n % Radix>>

NatIsOdd(a) == a[Len(a)] % 2 = 1

\* The number written with the decimal digits d, most significant first.
TenTo(t) == CASE t = 0 -> 1 [] t = 1 -> 10 [] t = 2 -> 100 [] t = 3 -> 1000

DecDigitAt(d, i) == IF i >= 1 /\ i <= Len(d) THEN d[Len(d) + 1 - i] ELSE 0

FromDigits(d) ==
    LET limbs == (Len(d) + 3) \div 4
    IN  StripZeros([j \in 1..limbs |->
            LET low == 4 * (limbs - j)
            IN  DecDigitAt(d, low + 1) + 10 * DecDigitAt(d, low + 2)
                + 100 * DecDigitAt(d, low + 3) + 1000 * DecDigitAt(d, low + 4)])

\* The decimal digits of a, most significant first, no leading zero.
ToDigits(a) ==
    LET all == [i \in 1..(4 * Len(a)) |->
                   (a[(i + 3) \div 4] \div TenTo(3 - ((i - 1) % 4))) % 10]
        lead == {i \in 1..(4 * Len(a)) : all[i] # 0}
    IN  IF lead = {} THEN <<0>>
        ELSE LET first == CHOOSE i \in lead : \A j \in lead : i <= j
             IN  SubSeq(all, first, 4 * Len(a))

(***************************************************************************)
(* Integers of any size: a sign and a magnitude; zero is not negative.     *)
(***************************************************************************)
MkZ(neg, mag) == [neg |-> neg /\ ~NatIsZero(mag), mag |-> mag]

Z(n) == IF n < 0 THEN MkZ(TRUE, NatOf(-n)) ELSE MkZ(FALSE, NatOf(n))

ZZero == Z(0)

ZNeg(a) == MkZ(~a.neg, a.mag)

ZAbs(a) == MkZ(FALSE, a.mag)

ZAdd(a, b) ==
    IF a.neg = b.neg THEN MkZ(a.neg, NatAdd(a.mag, b.mag))
    ELSE IF NatLess(a.mag, b.mag) THEN MkZ(b.neg, NatSub(b.mag, a.mag))
    ELSE MkZ(a.neg, NatSub(a.mag, b.mag))

ZSub(a, b) == ZAdd(a, ZNeg(b))

ZMul(a, b) == MkZ(a.neg # b.neg, NatMul(a.mag, b.mag))

ZLess(a, b) ==
    IF a.neg # b.neg THEN a.neg
    ELSE IF a.neg THEN NatLess(b.mag, a.mag)
    ELSE NatLess(a.mag, b.mag)

ZLeq(a, b) == a = b \/ ZLess(a, b)

\* Quotient truncated toward zero, for b # 0.
ZQuot(a, b) == MkZ(a.neg # b.neg, NatDivMod(a.mag, b.mag).q)

\* Remainder with the sign of the dividend, for b # 0.
ZRem(a, b) == MkZ(a.neg, NatDivMod(a.mag, b.mag).r)

(***************************************************************************)
(* Inner = i64 (lib.rs:32): the range, the two's-complement wrap, and the  *)
(* std operators the macros call.  An operator either returns a value or   *)
(* panics.                                                                 *)
(***************************************************************************)
MAX_INNER == MkZ(FALSE, FromDigits(<<9,2,2,3,3,7,2,0,3,6,8,5,4,7,7,5,8,0,7>>))

MIN_INNER == MkZ(TRUE, FromDigits(<<9,2,2,3,3,7,2,0,3,6,8,5,4,7,7,5,8,0,8>>))

TwoPow64 == FromDigits(<<1,8,4,4,6,7,4,4,0,7,3,7,0,9,5,5,1,6,1,6>>)

InI64(z) == ZLeq(MIN_INNER, z) /\ ZLeq(z, MAX_INNER)

\* The i64 with the same low 64 bits as z.
WrapI64(z) ==
    LET m == NatDivMod(z.mag, TwoPow64).r
        u == IF z.neg /\ ~NatIsZero(m) THEN NatSub(TwoPow64, m) ELSE m
    IN  IF NatLeq(u, MAX_INNER.mag) THEN MkZ(FALSE, u)
        ELSE MkZ(TRUE, NatSub(TwoPow64, u))

Returned(v) == [kind |-> "value", val |-> v, err |-> "none"]

Panicked == [kind |-> "panic", val |-> ZZero, err |-> "none"]

NoOutcome == [kind |-> "none", val |-> ZZero, err |-> "none"]

\* +, - and * of the primitive integers: the crate calls the plain operators, so
\* an overflow panics when the build has overflow-checks on (the dev and test
\* profiles) and wraps when it has them off (the release profile).
Overflowing(checks, exact) ==
    IF InI64(exact) THEN Returned(exact)
    ELSE IF checks THEN Panicked
    ELSE Returned(WrapI64(exact))

i64_add(checks, x, y) == Overflowing(checks, ZAdd(x, y))

i64_sub(checks, x, y) == Overflowing(checks, ZSub(x, y))

i64_mul(checks, x, y) == Overflowing(checks, ZMul(x, y))

\* / panics on a zero divisor and on MIN / -1 in every build.
i64_div(x, y) ==
    IF y = ZZero THEN Panicked
    ELSE IF x = MIN_INNER /\ y = Z(-1) THEN Panicked
    ELSE Returned(ZQuot(x, y))

i64_rem(x, y) ==
    IF y = ZZero THEN Panicked
    ELSE IF x = MIN_INNER /\ y = Z(-1) THEN Panicked
    ELSE Returned(ZRem(x, y))

i64_abs(checks, x) == Overflowing(checks, ZAbs(x))

i64_method(checks, method, x, y) ==
    CASE method = "add" -> i64_add(checks, x, y)
      [] method = "sub" -> i64_sub(checks, x, y)
      [] method = "mul" -> i64_mul(checks, x, y)
      [] method = "div" -> i64_div(x, y)

(***************************************************************************)
(* Scalars of the supported numeric types.  A scalar is                    *)
(* (-1)^neg * mag * 2^exp2 (cls "fin"), an infinity or a NaN; the integer  *)
(* types have exp2 = 0.  f64 carries 53 significant bits, f32 24.          *)
(***************************************************************************)
IntTypes == {"i64", "i32", "i16", "i8", "u32", "u16", "u8"}

FloatTypes == {"f64", "f32"}

MantissaBits(ty) == IF ty = "f64" THEN 53 ELSE 24

Fin(ty, neg, mag, exp2) ==
    [ty |-> ty, cls |-> "fin", neg |-> neg, mag |-> mag, exp2 |-> exp2]

Inf(ty, neg) == [ty |-> ty, cls |-> "inf", neg |-> neg, mag |-> <<0>>, exp2 |-> 0]

NaN(ty) == [ty |-> ty, cls |-> "nan", neg |-> FALSE, mag |-> <<0>>, exp2 |-> 0]

RECURSIVE Pow2(_)
Pow2(n) ==
    IF n = 0 THEN <<1>>
    ELSE IF n % 2 = 1 THEN NatMulSmall(Pow2(n - 1), 2)
    ELSE LET h == Pow2(n \div 2) IN NatMul(h, h)

\* Scale num / den by powers of two until lo <= num / den < 2 * lo; e counts the
\* powers taken out.  8192 = 2^13 takes thirteen at a time while that fits.
RECURSIVE Normalize(_, _, _, _)
Normalize(num, den, e, lo) ==
    LET dlo == NatMul(den, lo)
        dhi == NatMulSmall(dlo, 2)
    IN  IF NatLess(num, dlo)
        THEN IF NatLess(NatMulSmall(num, 8192), dhi)
             THEN Normalize(NatMulSmall(num, 8192), den, e - 13, lo)
             ELSE Normalize(NatMulSmall(num, 2), den, e - 1, lo)
        ELSE IF NatLeq(dhi, num)
        THEN IF NatLeq(NatMulSmall(dlo, 8192), num)
             THEN Normalize(num, NatMulSmall(den, 8192), e + 13, lo)
             ELSE Normalize(num, NatMulSmall(den, 2), e + 1, lo)
        ELSE [num |-> num, den |-> den, e |-> e]

\* num / den (both > 0) times 2^exp2, rounded to the type's significant bits,
\* ties to even: IEEE 754 round-to-nearest, for results inside the exponent range.
RoundToFloat(ty, neg, num, den, exp2) ==
    LET n == Normalize(num, den, 0, Pow2(MantissaBits(ty) - 1))
        qr == NatDivMod(n.num, n.den)
        twice == NatMulSmall(qr.r, 2)
        up == NatLess(n.den, twice) \/ (twice = n.den /\ NatIsOdd(qr.q))
        m == IF up THEN NatAdd(qr.q, <<1>>) ELSE qr.q
    IN  Fin(ty, neg, m, n.e + exp2)

\* `x as f64`, `x as f32` of an i64.
i64_as_float(ty, z) ==
    IF z = ZZero THEN Fin(ty, FALSE, <<0>>, 0)
    ELSE RoundToFloat(ty, z.neg, z.mag, <<1>>, 0)

\* x / y of two floats of one type.
float_div(ty, x, y) ==
    LET neg == x.neg # y.neg IN
    IF x.cls = "nan" \/ y.cls = "nan" THEN NaN(ty)
    ELSE IF x.cls = "inf" THEN (IF y.cls = "inf" THEN NaN(ty) ELSE Inf(ty, neg))
    ELSE IF y.cls = "inf" THEN Fin(ty, neg, <<0>>, 0)
    ELSE IF NatIsZero(y.mag) THEN (IF NatIsZero(x.mag) THEN NaN(ty) ELSE Inf(ty, neg))
    ELSE IF NatIsZero(x.mag) THEN Fin(ty, neg, <<0>>, 0)
    ELSE RoundToFloat(ty, neg, x.mag, y.mag, x.exp2 - y.exp2)

\* The integer part and the fraction's numerator of mag * 2^exp2.
FloatParts(x) ==
    IF x.exp2 >= 0
    THEN [int |-> NatMul(x.mag, Pow2(x.exp2)), frac |-> <<0>>, unit |-> <<1>>]
    ELSE LET unit == Pow2(-x.exp2)
             qr == NatDivMod(x.mag, unit)
         IN  [int |-> qr.q, frac |-> qr.r, unit |-> unit]

\* The quotient cast without `.round()`.
float_round_missing(x) == x

\* f64::round, f32::round: to the nearest integer, ties away from zero.
float_round(x) ==
    IF x.cls # "fin" THEN x
    ELSE LET parts == FloatParts(x)
             up == NatLeq(parts.unit, NatMulSmall(parts.frac, 2))
         IN  Fin(x.ty, x.neg, IF up THEN NatAdd(parts.int, <<1>>) ELSE parts.int, 0)

\* `x as i64` of a float: toward zero, saturating, NaN to 0.
float_as_i64(x) ==
    IF x.cls = "nan" THEN ZZero
    ELSE IF x.cls = "inf" THEN (IF x.neg THEN MIN_INNER ELSE MAX_INNER)
    ELSE LET t == MkZ(x.neg, FloatParts(x).int)
         IN  IF ZLess(MAX_INNER, t) THEN MAX_INNER
             ELSE IF ZLess(t, MIN_INNER) THEN MIN_INNER
             ELSE t

\* `rhs as i64`, `self as i64` in the macros: the value itself for the integer
\* types, the truncating cast for the float types.
as_i64(k) == IF k.ty \in FloatTypes THEN float_as_i64(k) ELSE MkZ(k.neg, k.mag)

(***************************************************************************)
(* The operator impls of lib.rs.                                           *)
(***************************************************************************)
\* impl Add for Money, impl Sub for Money.
derive_op_trait_from_inner(checks, method, self, rhs) ==
    i64_method(checks, method, self, rhs)

\* impl Mul<t> for Money, impl Div<t> for Money.
derive_trait_for_money_with_type(checks, method, self, rhs) ==
    i64_method(checks, method, self, as_i64(rhs))

\* impl Mul<Money> for t, multiplying before it casts: round(self * rhs).
derive_trait_for_type_with_money_uncast(checks, method, self, rhs) ==
    IF self.ty \in FloatTypes /\ self.cls = "fin"
    THEN Returned(float_as_i64(float_round(
            Fin(self.ty, self.neg # rhs.neg, NatMul(self.mag, rhs.mag), self.exp2))))
    ELSE i64_method(checks, method, as_i64(self), rhs)

\* impl Mul<Money> for t.
derive_trait_for_type_with_money(checks, method, self, rhs) ==
    i64_method(checks, method, as_i64(self), rhs)

\* impl Div<f64> for Money, impl Div<f32> for Money.
div_float(self, rhs) ==
    LET inner == float_div(rhs.ty, i64_as_float(rhs.ty, self), rhs)
    IN  Returned(float_as_i64(float_round(inner)))

(***************************************************************************)
(* Strings are sequences of characters.  A character is a one-character    *)
(* string; the two non-ASCII decimal digits stand for the Unicode class Nd *)
(* that the regex crate's \d matches: U+0663 ARABIC-INDIC DIGIT THREE (two *)
(* bytes of UTF-8) and U+0969 DEVANAGARI DIGIT THREE (three bytes).        *)
(***************************************************************************)
AsciiDigits == {"0", "1", "2", "3", "4", "5", "6", "7", "8", "9"}

ArabicIndicThree == "U+0663"

DevanagariThree == "U+0969"

Newline == "\n"

\* \d of the regex crate (Unicode-aware unless disabled).
IsRegexDigit(c) == c \in AsciiDigits \cup {ArabicIndicThree, DevanagariThree}

Utf8Len(c) ==
    CASE c = ArabicIndicThree -> 2
      [] c = DevanagariThree -> 3
      [] OTHER -> 1

DigitValue(c) ==
    CASE c = "0" -> 0 [] c = "1" -> 1 [] c = "2" -> 2 [] c = "3" -> 3
      [] c = "4" -> 4 [] c = "5" -> 5 [] c = "6" -> 6 [] c = "7" -> 7
      [] c = "8" -> 8 [] c = "9" -> 9

DigitChar(d) == <<"0", "1", "2", "3", "4", "5", "6", "7", "8", "9">>[d + 1]

\* format!("{}", n) for n >= 0.
FormatNat(a) == LET d == ToDigits(a) IN [i \in 1..Len(d) |-> DigitChar(d[i])]

MinOf(S) == CHOOSE i \in S : \A j \in S : i <= j

MaxOf(S) == CHOOSE i \in S : \A j \in S : j <= i

\* str::len: the length in bytes of the first n characters of s.
RECURSIVE BytesBefore(_, _)
BytesBefore(s, n) == IF n = 0 THEN 0 ELSE BytesBefore(s, n - 1) + Utf8Len(s[n])

ByteLen(s) == BytesBefore(s, Len(s))

\* The byte offsets that are character boundaries of s.
CharBoundaries(s) == {BytesBefore(s, n) : n \in 0..Len(s)}

\* The characters of s before byte offset b, a character boundary.
PrefixToByte(s, b) ==
    SubSeq(s, 1, CHOOSE n \in 0..Len(s) : BytesBefore(s, n) = b)

SuffixFromByte(s, b) ==
    SubSeq(s, (CHOOSE n \in 0..Len(s) : BytesBefore(s, n) = b) + 1, Len(s))

(***************************************************************************)
(* Display for Money (lib.rs:58-91).                                       *)
(***************************************************************************)
Failed(e) == [kind |-> "err", val |-> ZZero, err |-> e]

\* fn dollars with the absolute value taken first: self.0.abs() / 100
Money_dollars_abs_first(checks, v) ==
    LET n == i64_abs(checks, v)
        q == IF n.kind = "value" THEN i64_div(n.val, Z(100)) ELSE n
    IN  IF q.kind = "value"
        THEN [kind |-> "value",
              text |-> (IF q.val.neg THEN <<"-">> ELSE <<>>) \o FormatNat(q.val.mag)]
        ELSE [kind |-> "panic", text |-> <<>>]

\* fn dollars: format!("{}", (self.0 / 100).abs())
Money_dollars(checks, v) ==
    LET q == i64_div(v, Z(100))
        n == IF q.kind = "value" THEN i64_abs(checks, q.val) ELSE q
    IN  IF n.kind = "value"
        THEN [kind |-> "value", text |-> FormatNat(n.val.mag)]
        ELSE [kind |-> "panic", text |-> <<>>]

\* fn cents without `.abs()`: self.0 % 100 keeps the sign of self.0
Money_cents_signed(checks, v) ==
    LET n == i64_rem(v, Z(100))
    IN  IF n.kind = "value"
        THEN LET zero_pad == IF ZLess(n.val, Z(10)) THEN <<"0">> ELSE <<>>
             IN  [kind |-> "value",
                  text |-> zero_pad \o (IF n.val.neg THEN <<"-">> ELSE <<>>)
                              \o FormatNat(n.val.mag)]
        ELSE [kind |-> "panic", text |-> <<>>]

\* fn cents: (self.0 % 100).abs(), zero-padded below 10
Money_cents(checks, v) ==
    LET r == i64_rem(v, Z(100))
        n == IF r.kind = "value" THEN i64_abs(checks, r.val) ELSE r
    IN  IF n.kind = "value"
        THEN LET zero_pad == IF ZLess(n.val, Z(10)) THEN <<"0">> ELSE <<>>
             IN  [kind |-> "value", text |-> zero_pad \o FormatNat(n.val.mag)]
        ELSE [kind |-> "panic", text |-> <<>>]

\* fn sign
Money_sign(v) == IF ZLess(v, ZZero) THEN <<"-">> ELSE <<>>

\* impl fmt::Display for Money: "{}${}.{}"
fmt(checks, v) ==
    LET d == Money_dollars(checks, v)
        c == Money_cents(checks, v)
    IN  IF d.kind = "value" /\ c.kind = "value"
        THEN [kind |-> "value", text |-> Money_sign(v) \o <<"$">> \o d.text \o <<".">> \o c.text]
        ELSE [kind |-> "panic", text |-> <<>>]

(***************************************************************************)
(* Money::parse_str (parser.rs).                                           *)
(***************************************************************************)
\* str::parse::<i64> on a string with no sign: per character, an invalid digit
\* is reported first, then the overflow of the multiplication by ten, then the
\* overflow of the addition.  mk_int maps "number too large ..." to OutOfRange
\* and every other error to ParseInt.
RECURSIVE parse_i64(_, _, _)
parse_i64(s, i, acc) ==
    IF i > Len(s) THEN Returned(MkZ(FALSE, acc))
    ELSE IF s[i] \notin AsciiDigits THEN Failed("ParseInt")
    ELSE LET times10 == NatMulSmall(acc, 10)
             plus == NatAdd(times10, <<DigitValue(s[i])>>)
         IN  IF NatLess(MAX_INNER.mag, times10) THEN Failed("OutOfRange")
             ELSE IF NatLess(MAX_INNER.mag, plus) THEN Failed("OutOfRange")
             ELSE parse_i64(s, i + 1, plus)

mk_int(s) == IF Len(s) = 0 THEN Returned(ZZero) ELSE parse_i64(s, 1, <<0>>)

\* round_cents rounding up only above 5: `if i2 > 5`.
round_cents_above_five(checks, s) ==
    IF 3 \notin CharBoundaries(s) THEN Panicked
    ELSE LET s3 == PrefixToByte(s, 3) IN
         IF 2 \notin CharBoundaries(s3) THEN Panicked
         ELSE LET i1 == mk_int(PrefixToByte(s3, 2))
                  i2 == mk_int(SuffixFromByte(s3, 2))
              IN  IF i1.kind # "value" THEN i1
                  ELSE IF i2.kind # "value" THEN i2
                  ELSE IF ZLess(Z(5), i2.val) THEN i64_add(checks, i1.val, Z(1))
                  ELSE i1

\* &s[..3], then split_at(s.len() - 1): both panic off a character boundary.
round_cents(checks, s) ==
    IF 3 \notin CharBoundaries(s) THEN Panicked
    ELSE LET s3 == PrefixToByte(s, 3) IN
         IF 2 \notin CharBoundaries(s3) THEN Panicked
         ELSE LET i1 == mk_int(PrefixToByte(s3, 2))
                  i2 == mk_int(SuffixFromByte(s3, 2))
              IN  IF i1.kind # "value" THEN i1
                  ELSE IF i2.kind # "value" THEN i2
                  ELSE IF ZLeq(Z(5), i2.val) THEN i64_add(checks, i1.val, Z(1))
                  ELSE i1

\* mk_rounded_cents reading one digit as tenths: "8" as 80.
mk_rounded_cents_tenths(checks, s) ==
    IF ByteLen(s) = 1 THEN mk_int(s \o <<"0">>)
    ELSE IF ByteLen(s) > 2 THEN round_cents(checks, s) ELSE mk_int(s)

mk_rounded_cents(checks, s) ==
    IF ByteLen(s) > 2 THEN round_cents(checks, s) ELSE mk_int(s)

apply_sign(amount) == IF amount.kind = "Negative" THEN Z(-1) ELSE Z(1)

\* i64::wrapping_mul, i64::wrapping_add: no range check.
checked_or_out_of_range_wrapping(exact) == Returned(WrapI64(exact))

\* i64::checked_mul, i64::checked_add followed by ok_or(Error::OutOfRange).
checked_or_out_of_range(exact) ==
    IF InI64(exact) THEN Returned(exact) ELSE Failed("OutOfRange")

\* The sign applied to the dollars alone: `let cents = mk_rounded_cents(..)?;`
combine_dollars_and_cents_unsigned_cents(checks, amount) ==
    LET d0 == mk_int(amount.dollars) IN
    IF d0.kind # "value" THEN d0
    ELSE LET dollars == i64_mul(checks, d0.val, apply_sign(amount)) IN
    IF dollars.kind # "value" THEN dollars
    ELSE LET cents == mk_rounded_cents(checks, amount.cents) IN
    IF cents.kind # "value" THEN cents
    ELSE LET hundred == checked_or_out_of_range(ZMul(dollars.val, Z(100))) IN
    IF hundred.kind # "value" THEN hundred
    ELSE checked_or_out_of_range(ZAdd(hundred.val, cents.val))

\* The combination of parser/mod.rs: the unsigned total first, its negation
\* (checked_mul(-1)) last.
combine_dollars_and_cents_negated_last(checks, amount) ==
    LET dollars == mk_int(amount.dollars) IN
    IF dollars.kind # "value" THEN dollars
    ELSE LET cents == mk_rounded_cents(checks, amount.cents) IN
    IF cents.kind # "value" THEN cents
    ELSE LET hundred == checked_or_out_of_range(ZMul(dollars.val, Z(100))) IN
    IF hundred.kind # "value" THEN hundred
    ELSE LET tot == checked_or_out_of_range(ZAdd(hundred.val, cents.val)) IN
    IF tot.kind # "value" \/ amount.kind # "Negative" THEN tot
    ELSE checked_or_out_of_range(ZMul(tot.val, Z(-1)))

\* let dollars = mk_int(..)? * self.apply_sign(); let cents = ..; checked_mul(100)
\* and checked_add(cents), each ok_or(Error::OutOfRange).
combine_dollars_and_cents(checks, amount) ==
    LET d0 == mk_int(amount.dollars) IN
    IF d0.kind # "value" THEN d0
    ELSE LET dollars == i64_mul(checks, d0.val, apply_sign(amount)) IN
    IF dollars.kind # "value" THEN dollars
    ELSE LET c0 == mk_rounded_cents(checks, amount.cents) IN
    IF c0.kind # "value" THEN c0
    ELSE LET cents == i64_mul(checks, c0.val, apply_sign(amount)) IN
    IF cents.kind # "value" THEN cents
    ELSE LET hundred == checked_or_out_of_range(ZMul(dollars.val, Z(100))) IN
    IF hundred.kind # "value" THEN hundred
    ELSE checked_or_out_of_range(ZAdd(hundred.val, cents.val))

to_money(checks, amount) == combine_dollars_and_cents(checks, amount)

\* ^\$?(?P<dollars>[\d,]*)\.?(?P<cents>\d*$): after an optional "$", the longest
\* run of digits and commas, an optional ".", and digits to the end of the text.
valid_inner(inner) ==
    LET from == IF Len(inner) > 0 /\ inner[1] = "$" THEN 2 ELSE 1
        stops == {i \in from..Len(inner) : ~(IsRegexDigit(inner[i]) \/ inner[i] = ",")}
        stop == IF stops = {} THEN Len(inner) + 1 ELSE MinOf(stops)
        centsFrom == IF stop <= Len(inner) /\ inner[stop] = "." THEN stop + 1 ELSE stop
    IN  IF \A i \in centsFrom..Len(inner) : IsRegexDigit(inner[i])
        THEN [matched |-> TRUE,
              dollars |-> SubSeq(inner, from, stop - 1),
              cents |-> SubSeq(inner, centsFrom, Len(inner))]
        ELSE [matched |-> FALSE, dollars |-> <<>>, cents |-> <<>>]

\* Only the first comma removed: String::replacen(",", "", 1)
remove_commas_first(s) ==
    LET commas == {i \in 1..Len(s) : s[i] = ","}
    IN  IF commas = {} THEN s
        ELSE SubSeq(s, 1, MinOf(commas) - 1) \o SubSeq(s, MinOf(commas) + 1, Len(s))

\* String::replace(",", "")
RECURSIVE remove_commas(_)
remove_commas(s) ==
    IF Len(s) = 0 THEN <<>>
    ELSE IF Head(s) = "," THEN remove_commas(Tail(s))
    ELSE <<Head(s)>> \o remove_commas(Tail(s))

NoAmount == [ok |-> FALSE, kind |-> "Positive", dollars |-> <<>>, cents |-> <<>>]

\* Amount::new; captures always has its three groups.
new(kind, inner) ==
    LET caps == valid_inner(inner)
    IN  IF ~caps.matched THEN NoAmount
        ELSE [ok |-> TRUE, kind |-> kind,
              dollars |-> remove_commas(caps.dollars), cents |-> caps.cents]

positive(s) == new("Positive", s)

negative(s) == new("Negative", s)

\* Regex "-(.*)": the leftmost "-"; "." matches anything but a line feed.
has_minus_is_match(s) == \E i \in 1..Len(s) : s[i] = "-"

\* The longest run without a line feed from position i on ends before this.
LineEnd(s, i) ==
    LET feeds == {j \in i..Len(s) : s[j] = Newline}
    IN  IF feeds = {} THEN Len(s) + 1 ELSE MinOf(feeds)

has_minus_capture(s) ==
    LET i == MinOf({j \in 1..Len(s) : s[j] = "-"})
    IN  SubSeq(s, i + 1, LineEnd(s, i + 1) - 1)

\* Regex "\((.*)\)": the leftmost "(" with a ")" after it on the same line,
\* and the last such ")".
ClosersOf(s, i) == {j \in (i + 1)..(LineEnd(s, i + 1) - 1) : s[j] = ")"}

ParenOpeners(s) == {i \in 1..Len(s) : s[i] = "(" /\ ClosersOf(s, i) # {}}

has_paren_is_match(s) == ParenOpeners(s) # {}

has_paren_capture(s) ==
    LET i == MinOf(ParenOpeners(s))
    IN  SubSeq(s, i + 1, MaxOf(ClosersOf(s, i)) - 1)

\* Amount::from
from(s) ==
    LET minus == has_minus_is_match(s)
        paren == has_paren_is_match(s)
    IN  IF ~minus /\ ~paren THEN positive(s)
        ELSE IF minus /\ paren THEN NoAmount
        ELSE IF minus THEN negative(has_minus_capture(s))
        ELSE negative(has_paren_capture(s))

parse_en_us_utf8(checks, input) ==
    LET amount == from(input)
    IN  IF ~amount.ok THEN Failed("InvalidString") ELSE to_money(checks, amount)

parse_str(checks, input) == parse_en_us_utf8(checks, input)

(***************************************************************************)
(* FromSql and ToSql for Money (sql_impl.rs).  A buffer is a sequence of   *)
(* bytes, 0..255.                                                          *)
(***************************************************************************)
\* BufMut::put_i64_le: the least significant byte first.
put_i64_le(n) ==
    LET u == IF n.neg THEN NatSub(TwoPow64, n.mag) ELSE n.mag
    IN  [i \in 1..8 |-> NatDivMod(NatDivMod(u, Pow2(8 * (i - 1))).q, <<256>>).r[1]]

\* BufMut::put_i64: the eight bytes of the two's complement of n, the most
\* significant first.
put_i64(n) ==
    LET u == IF n.neg THEN NatSub(TwoPow64, n.mag) ELSE n.mag
    IN  [i \in 1..8 |-> NatDivMod(NatDivMod(u, Pow2(8 * (8 - i))).q, <<256>>).r[1]]

\* The first n bytes of b as a big-endian natural number.
RECURSIVE BigEndian(_, _)
BigEndian(b, n) ==
    IF n = 0 THEN <<0>>
    ELSE NatAdd(NatMulSmall(BigEndian(b, n - 1), 256), NatOf(b[n]))

\* ReadBytesExt::read_i64::<BigEndian> on &[u8]: fails on fewer than eight
\* bytes, else yields the value and advances the slice past them.
read_i64(b) ==
    IF Len(b) < 8
    THEN [ok |-> FALSE, val |-> ZZero, rest |-> b]
    ELSE LET u == BigEndian(b, 8)
         IN  [ok |-> TRUE,
              val |-> IF NatLeq(u, MAX_INNER.mag) THEN MkZ(FALSE, u)
                      ELSE MkZ(TRUE, NatSub(TwoPow64, u)),
              rest |-> SubSeq(b, 9, Len(b))]

\* Money::from(cents)
Money_from(cents) == cents

\* FromSql::from_sql
from_sql(b) ==
    LET v == read_i64(b)
    IN  IF ~v.ok THEN Failed("UnexpectedEof")
        ELSE IF Len(v.rest) # 0 THEN Failed("invalid buffer size")
        ELSE Returned(Money_from(v.val))

\* ToSql::to_sql: the buffer afterwards; the result is always Ok(IsNull::No).
to_sql(v, bytes) == bytes \o put_i64(v)

(***************************************************************************)
(* The values the calls are made with.                                     *)
(***************************************************************************)
MaxSmall == 2

MaxMant == 3

MaxCents == 12

MaxLen == 3

MaxFrac == 3

Money(n) == Z(n)

MoneyOf(digits) == MkZ(FALSE, FromDigits(digits))

MoneyVals ==
    {Money(n) : n \in (-MaxSmall)..MaxSmall}
    \cup {MIN_INNER, ZAdd(MIN_INNER, Z(1)), MAX_INNER, ZSub(MAX_INNER, Z(1))}
    \cup {Money(7), Money(21), Money(100), Money(-100), Money(12300),
          Money(87808), Money(-87808),
          \* 2^24 + 1 and 2^53 + 1: the first integers f32 and f64 cannot hold
          Money(16777217), MoneyOf(<<9,0,0,7,1,9,9,2,5,4,7,4,0,9,9,3>>),
          \* lib.rs, test_precision_loss_*
          MoneyOf(<<9,0,0,0,0,0,0,0,0,0,0,0,0,0,0,9,9,0,0>>)}

TypeMax(ty) ==
    CASE ty = "i64" -> MAX_INNER
      [] ty = "i32" -> MkZ(FALSE, FromDigits(<<2,1,4,7,4,8,3,6,4,7>>))
      [] ty = "i16" -> Z(32767)
      [] ty = "i8" -> Z(127)
      [] ty = "u32" -> MkZ(FALSE, FromDigits(<<4,2,9,4,9,6,7,2,9,5>>))
      [] ty = "u16" -> Z(65535)
      [] ty = "u8" -> Z(255)

TypeMin(ty) ==
    CASE ty = "i64" -> MIN_INNER
      [] ty = "i32" -> MkZ(TRUE, FromDigits(<<2,1,4,7,4,8,3,6,4,8>>))
      [] ty = "i16" -> Z(-32768)
      [] ty = "i8" -> Z(-128)
      [] ty \in {"u32", "u16", "u8"} -> ZZero

IntScalar(ty, z) == Fin(ty, z.neg, z.mag, 0)

IntScalars(ty) ==
    {IntScalar(ty, z) :
        z \in {y \in {Z(n) : n \in (-MaxSmall)..MaxSmall}
                     \cup {Z(11), Z(100), TypeMin(ty), TypeMax(ty)} :
                  ZLeq(TypeMin(ty), y) /\ ZLeq(y, TypeMax(ty))}}

\* m * 2^e for small m: 0.25, 0.5, 0.75, 1.5, ... and both zeros; 2.5, 11.0 and
\* a neighbour of 2/3; the infinities and NaN.
FloatScalars(ty) ==
    {Fin(ty, neg, NatOf(m), 0) : neg \in BOOLEAN, m \in 0..MaxMant}
    \cup {Fin(ty, neg, NatOf(m), e) :
            neg \in BOOLEAN, m \in {x \in 1..MaxMant : x % 2 = 1}, e \in {-1, -2}}
    \cup {Fin(ty, FALSE, NatOf(5), -1), Fin(ty, FALSE, NatOf(11), 0),
          \* the f32 nearest to 2/3: 11184811 * 2^-24
          Fin(ty, FALSE, NatOf(11184811), -24),
          Inf(ty, FALSE), Inf(ty, TRUE), NaN(ty)}

Scalars ==
    UNION {IntScalars(ty) : ty \in IntTypes}
    \cup UNION {FloatScalars(ty) : ty \in FloatTypes}

NoScalar == IntScalar("i64", ZZero)

\* The values rendered: the arithmetic ones, every |raw| around a whole unit and
\* below it, and some whose whole part spans several limbs.
DisplayVals ==
    MoneyVals
    \cup {Money(n) : n \in (-MaxCents)..MaxCents}
    \cup {Money(n) : n \in {-101, -99, 99, 101, 9999, 10000, -10000, 99999999, 100000000}}

Chars(digits) == [i \in 1..Len(digits) |-> DigitChar(digits[i])]

ShortAlphabet ==
    {"1", "5", ",", ".", "$", "-", "(", ")", "x", Newline, ArabicIndicThree, DevanagariThree}

ShortStrings == UNION {[1..n -> ShortAlphabet] : n \in 0..MaxLen}

Wholes ==
    {<<>>, <<"0">>, <<"1">>, <<"1", "2", "3">>, <<"1", ",", "2", "3", "4">>,
     <<",", "1", ",", ",", "2", ",">>,
     Chars(<<1,2,3,4,5,6,7,8,9,0,1,2,3,4,5,6,7>>),
     Chars(<<9,2,2,3,3,7,2,0,3,6,8,5,4,7,7,5,8>>),
     Chars(<<9,2,2,3,3,7,2,0,3,6,8,5,4,7,7,5,9>>),
     Chars(<<1,2,3,4,5,6,7,8,9,0,1,2,3,4,5,6,7,8>>),
     Chars(<<0,0,0,0,0,0,0,0,0,0,0,0,0,0,0,0,0,1>>),
     Chars(<<1,0,0,0,0,0,0,0,0,0,0,0,0,0,0,0,0,0>>),
     Chars(<<9,2,2,3,3,7,2,0,3,6,8,5,4,7,7,5,8,0,7>>),
     Chars(<<9,2,2,3,3,7,2,0,3,6,8,5,4,7,7,5,8,0,8>>),
     Chars(<<1,8,4,4,6,7,4,4,0,7,3,7,0,9,5,5,1,6,1,6>>)}

FracDigits == {"0", "4", "5", "9"}

Fracs ==
    UNION {[1..n -> FracDigits] : n \in 0..MaxFrac}
    \cup {<<"0", "7">>, <<"0", "8">>, <<"0", "7", "5">>, <<"0", "8", "5">>,
          <<"0", "7", "4">>, <<"0", "8", "4">>, <<"0", "7", "4", "9">>,
          <<"9", "9", "5", "0">>, <<"4", "5", "4", "9", "9">>}

Notations == {"plain", "minus", "paren"}

Signed(notation, body) ==
    CASE notation = "plain" -> body
      [] notation = "minus" -> <<"-">> \o body
      [] notation = "paren" -> <<"(">> \o body \o <<")">>

Family ==
    {Signed(n, w \o (IF Len(f) = 0 THEN <<>> ELSE <<".">> \o f)) :
        n \in Notations, w \in Wholes, f \in Fracs}
    \cup {Signed(n, <<"$">> \o w \o <<".">> \o f) :
        n \in Notations, w \in Wholes, f \in {<<>>, <<"0", "7">>, <<"4", "5", "5">>}}

\* The inputs the documentation and the tests of parser.rs do not cover.
Stray ==
    {<<"1", "2", "-", "3", "4">>, <<"5", "-">>, <<"$", "-", "5">>,
     <<"x", "(", "1", "0", "0", ")", "y">>, <<"-", "(", "1", "0", "0", ")">>,
     <<"(", "-", "1", "0", "0", ")">>, <<"(", "1", ")", "(", "2", ")">>,
     <<"-", "5", Newline, "x", "x">>}

\* "9.8" and "9.08": one fractional digit and what it is read as.
SingleDigit == {<<"9", ".", "8">>, <<"9", ".", "0", "8">>}

\* A comma after the ".".
CommaFractions ==
    {<<"1", ".", "2", ",", "3">>, <<"(", "1", ",", "2", ".", "3", ",", "4", ")">>,
     <<"-", "$", "1", ".", ",", "5">>}

ParseInputs == ShortStrings \cup Family \cup Stray \cup SingleDigit \cup CommaFractions

(***************************************************************************)
(* The state: one call of the library and its outcome.  The library keeps  *)
(* no state of its own; `checks` is the build's overflow-checks setting.   *)
(***************************************************************************)
VARIABLES pc, op, checks, self, rhs, k, input, text, out, w, buf

vars == <<pc, op, checks, self, rhs, k, input, text, out, w, buf>>

Init ==
    /\ pc = "ready"
    /\ op = "none"
    /\ checks \in BOOLEAN
    /\ self = ZZero
    /\ rhs = ZZero
    /\ k = NoScalar
    /\ input = <<>>
    /\ text = <<>>
    /\ out = NoOutcome
    /\ w = <<>>
    /\ buf = <<>>

\* The most values one buffer is written with, and the longest buffer read.
MaxWrites == 2

MaxBuf == 9

ByteVals == {0, 1, 127, 128, 255}

\* Buffers of every length up to MaxBuf, and the encodings of the Money values
\* whole, one byte short and one byte long.
Buffers ==
    UNION {[1..n -> {0, 255}] : n \in 0..MaxBuf}
    \cup UNION {[1..n -> ByteVals] : n \in 0..2}
    \cup {put_i64(v) : v \in MoneyVals}
    \cup {SubSeq(put_i64(v), 1, 7) : v \in MoneyVals}
    \cup {put_i64(v) \o <<b>> : v \in MoneyVals, b \in ByteVals}

\* a + b
Add ==
    /\ pc = "ready"
    /\ \E a \in MoneyVals, b \in MoneyVals :
        /\ pc' = "done"
        /\ op' = "add"
        /\ self' = a
        /\ rhs' = b
        /\ out' = derive_op_trait_from_inner(checks, "add", a, b)
        /\ UNCHANGED <<checks, w, buf, k, input, text>>

\* a - b
Sub ==
    /\ pc = "ready"
    /\ \E a \in MoneyVals, b \in MoneyVals :
        /\ pc' = "done"
        /\ op' = "sub"
        /\ self' = a
        /\ rhs' = b
        /\ out' = derive_op_trait_from_inner(checks, "sub", a, b)
        /\ UNCHANGED <<checks, w, buf, k, input, text>>

\* a * k
Mul ==
    /\ pc = "ready"
    /\ \E a \in MoneyVals, x \in Scalars :
        /\ pc' = "done"
        /\ op' = "mul"
        /\ self' = a
        /\ k' = x
        /\ out' = derive_trait_for_money_with_type(checks, "mul", a, x)
        /\ UNCHANGED <<checks, w, buf, rhs, input, text>>

\* k * a
MulReversed ==
    /\ pc = "ready"
    /\ \E a \in MoneyVals, x \in Scalars :
        /\ pc' = "done"
        /\ op' = "mul_reversed"
        /\ self' = a
        /\ k' = x
        /\ out' = derive_trait_for_type_with_money(checks, "mul", x, a)
        /\ UNCHANGED <<checks, w, buf, rhs, input, text>>

\* a / k for an integer k
Div ==
    /\ pc = "ready"
    /\ \E a \in MoneyVals, ty \in IntTypes :
        \E x \in IntScalars(ty) :
            /\ pc' = "done"
            /\ op' = "div"
            /\ self' = a
            /\ k' = x
            /\ out' = derive_trait_for_money_with_type(checks, "div", a, x)
            /\ UNCHANGED <<checks, w, buf, rhs, input, text>>

\* a / k for a float k
DivFloat ==
    /\ pc = "ready"
    /\ \E a \in MoneyVals, ty \in FloatTypes :
        \E x \in FloatScalars(ty) :
            /\ pc' = "done"
            /\ op' = "div"
            /\ self' = a
            /\ k' = x
            /\ out' = div_float(a, x)
            /\ UNCHANGED <<checks, w, buf, rhs, input, text>>

\* Money::parse_str(input)
ParseStr ==
    /\ pc = "ready"
    /\ \E s \in ParseInputs :
        /\ pc' = "done"
        /\ op' = "parse_str"
        /\ input' = s
        /\ out' = parse_str(checks, s)
        /\ UNCHANGED <<checks, w, buf, self, rhs, k, text>>

Shown == [kind |-> "text", val |-> ZZero, err |-> "none"]

\* v.to_string()
to_string ==
    /\ pc = "ready"
    /\ \E v \in DisplayVals :
        LET shown == fmt(checks, v)
        IN  /\ pc' = "shown"
            /\ op' = "to_string"
            /\ self' = v
            /\ text' = shown.text
            /\ out' = IF shown.kind = "value" THEN Shown ELSE Panicked
            /\ UNCHANGED <<checks, w, buf, rhs, k, input>>

\* Money::parse_str(&v.to_string())
ParseDisplayed ==
    /\ pc = "shown"
    /\ out.kind = "text"
    /\ pc' = "done"
    /\ op' = "parse_displayed"
    /\ input' = text
    /\ out' = parse_str(checks, text)
    /\ UNCHANGED <<checks, w, buf, self, rhs, k, text>>

IsNullNo == [kind |-> "ok", val |-> ZZero, err |-> "none"]

\* v.to_sql(&ty, &mut w), on a buffer that may hold earlier values
ToSql ==
    /\ pc \in {"ready", "written"}
    /\ Len(w) < 8 * MaxWrites
    /\ \E v \in MoneyVals :
        /\ pc' = "written"
        /\ op' = "to_sql"
        /\ self' = v
        /\ w' = to_sql(v, w)
        /\ out' = IsNullNo
        /\ UNCHANGED <<checks, rhs, k, input, text, buf>>

\* Money::from_sql(&ty, b)
FromSql ==
    /\ pc = "ready"
    /\ \E b \in Buffers :
        /\ pc' = "done"
        /\ op' = "from_sql"
        /\ buf' = b
        /\ out' = from_sql(b)
        /\ UNCHANGED <<checks, self, rhs, k, input, text, w>>

\* Money::from_sql(&ty, &w) on what to_sql wrote
FromSqlWritten ==
    /\ pc = "written"
    /\ pc' = "done"
    /\ op' = "from_sql_written"
    /\ buf' = w
    /\ out' = from_sql(w)
    /\ UNCHANGED <<checks, self, rhs, k, input, text, w>>

NextOps == Add \/ Sub \/ Mul \/ MulReversed \/ Div \/ DivFloat

NextParse == ParseStr \/ to_string \/ ParseDisplayed

NextSql == ToSql \/ FromSql \/ FromSqlWritten

Next == NextOps \/ NextParse \/ NextSql

\* The arithmetic operators alone.
SpecOps == Init /\ [][NextOps]_vars

\* The parser and the formatter alone.
SpecParse == Init /\ [][NextParse]_vars

\* The wire codec alone.
SpecSql == Init /\ [][NextSql]_vars

Spec == Init /\ [][Next]_vars
(***************************************************************************)
(* What the claims are stated with: the exact results, computed without    *)
(* the i64 and float operators above.                                      *)
(***************************************************************************)
Called(name) == pc = "done" /\ op = name

IntegerCall ==
    /\ pc = "done"
    /\ \/ op \in {"add", "sub"}
       \/ op \in {"mul", "mul_reversed", "div"} /\ k.ty \in IntTypes

FloatCall(name) == Called(name) /\ k.ty \in FloatTypes

ScalarValue == MkZ(k.neg, k.mag)

IsZeroScalar == k.cls = "fin" /\ NatIsZero(k.mag)

\* q is a / b truncated toward zero: |q| * |b| <= |a| < (|q| + 1) * |b|, with
\* the sign of a / b unless q is zero.
IsTruncatedQuotient(q, a, b) ==
    /\ NatLeq(NatMul(q.mag, b.mag), a.mag)
    /\ NatLess(a.mag, NatMul(NatAdd(q.mag, <<1>>), b.mag))
    /\ (q = ZZero \/ q.neg = (a.neg # b.neg))

\* The mathematical result of an integer call.
ExactResult ==
    CASE op = "add" -> ZAdd(self, rhs)
      [] op = "sub" -> ZSub(self, rhs)
      [] op \in {"mul", "mul_reversed"} -> ZMul(self, ScalarValue)
      [] op = "div" -> ZQuot(self, ScalarValue)

\* num / den to the nearest natural number, a half rounded up.
RoundHalfUp(num, den) ==
    LET qr == NatDivMod(num, den)
    IN  IF NatLeq(den, NatMulSmall(qr.r, 2)) THEN NatAdd(qr.q, <<1>>) ELSE qr.q

\* |x| to the nearest natural number for a finite x = mag * 2^exp2.
NearestMagnitude(mag, exp2) ==
    IF exp2 >= 0 THEN NatMul(mag, Pow2(exp2)) ELSE RoundHalfUp(mag, Pow2(-exp2))

\* round(raw * k), ties away from zero, for a finite k.
RoundedProduct ==
    MkZ(self.neg # k.neg, NearestMagnitude(NatMul(self.mag, k.mag), k.exp2))

\* round(raw / k), ties away from zero, for a finite non-zero k.
RoundedQuotient ==
    MkZ(self.neg # k.neg,
        IF k.exp2 >= 0
        THEN RoundHalfUp(self.mag, NatMul(k.mag, Pow2(k.exp2)))
        ELSE RoundHalfUp(NatMul(self.mag, Pow2(-k.exp2)), k.mag))

Saturated(z) ==
    IF ZLess(MAX_INNER, z) THEN MAX_INNER
    ELSE IF ZLess(z, MIN_INNER) THEN MIN_INNER
    ELSE z

\* Money(87808) / 11 and Money(87808) / 11.0 of the tests of lib.rs.
DividesTestValue(types) ==
    /\ Called("div")
    /\ self = Money(87808)
    /\ k.ty \in types
    /\ k.cls = "fin" /\ ~k.neg /\ k.mag = NatOf(11) /\ k.exp2 = 0

(***************************************************************************)
(* C1: +, -, * and / by an integer return the exact result or fail; they   *)
(* never return a value wrapped modulo 2^64, and the boundary cases of the *)
(* tests fail.  Violated: a build with overflow-checks off wraps.          *)
(***************************************************************************)
C1_ExactOrFails ==
    /\ (IntegerCall /\ ~(op = "div" /\ IsZeroScalar)) =>
          \/ out.kind = "panic"
          \/ out.kind = "value" /\ out.val = ExactResult
    /\ (IntegerCall /\ ~InI64(ExactResult) /\ ~(op = "div" /\ IsZeroScalar)) =>
          out.kind = "panic"

(***************************************************************************)
(* C2: Money(raw) * k and k * Money(raw) for a float k are                 *)
(* Money(round(raw * k)), ties away from zero.  Violated: the macro casts  *)
(* k to i64 before it multiplies, so the fraction of k is dropped.         *)
(***************************************************************************)
C2_FloatMulRounds ==
    ((FloatCall("mul") \/ FloatCall("mul_reversed")) /\ k.cls = "fin"
        /\ InI64(RoundedProduct)) =>
        out = Returned(RoundedProduct)

(***************************************************************************)
(* C3 as stated: integer division truncates, and float division is the     *)
(* exact quotient rounded to nearest, ties away from zero.  Violated:      *)
(* the float quotient is computed in the float type.                       *)
(***************************************************************************)
C3_ExactQuotientRounded ==
    /\ (Called("div") /\ k.ty \in IntTypes /\ ~IsZeroScalar
            /\ ~(self = MIN_INNER /\ ScalarValue = Z(-1))) =>
          out.kind = "value" /\ IsTruncatedQuotient(out.val, self, ScalarValue)
    /\ (FloatCall("div") /\ k.cls = "fin" /\ ~IsZeroScalar /\ InI64(RoundedQuotient)) =>
          out = Returned(RoundedQuotient)

(***************************************************************************)
(* C3 amended: Money(raw) / k for a non-zero integer k is the quotient     *)
(* truncated toward zero (MIN / -1 fails); for a non-zero float k other    *)
(* than NaN it is the quotient computed in the float type, (raw as float)  *)
(* / k, rounded to the nearest integer with ties away from zero and        *)
(* saturated to the i64 range.  Money(87808) / 11 is Money(7982),          *)
(* Money(87808) / 11.0 is Money(7983).                                     *)
(***************************************************************************)
C3_Division ==
    /\ (Called("div") /\ k.ty \in IntTypes /\ ~IsZeroScalar) =>
          IF self = MIN_INNER /\ ScalarValue = Z(-1)
          THEN out.kind = "panic"
          ELSE out.kind = "value" /\ IsTruncatedQuotient(out.val, self, ScalarValue)
    /\ (FloatCall("div") /\ k.cls # "nan" /\ ~IsZeroScalar) =>
          LET quotient == float_div(k.ty, i64_as_float(k.ty, self), k)
          IN  out = Returned(Saturated(MkZ(quotient.neg,
                        NearestMagnitude(quotient.mag, quotient.exp2))))
    /\ DividesTestValue(IntTypes) => out = Returned(Money(7982))
    /\ DividesTestValue(FloatTypes) => out = Returned(Money(7983))

\* A float division whose quotient, 7982.5454..., is rounded up.
C3_Witness == DividesTestValue({"f32"}) /\ out = Returned(Money(7983))

(***************************************************************************)
(* C4: a / 0 fails for every integer type and a / 0.0 fails for f64 and    *)
(* f32.  Violated: the float quotient is an infinity or a NaN, which the   *)
(* cast to i64 turns into MAX, MIN or 0.                                   *)
(***************************************************************************)
C4_ZeroDivisorFails ==
    (Called("div") /\ IsZeroScalar) => out.kind = "panic"

(***************************************************************************)
(* C5: k * v and v * k either both fail or both return the same Money, for *)
(* every supported scalar type.                                            *)
(***************************************************************************)
C5_MulCommutes ==
    /\ Called("mul") =>
          out = derive_trait_for_type_with_money(checks, "mul", k, self)
    /\ Called("mul_reversed") =>
          out = derive_trait_for_money_with_type(checks, "mul", self, k)

\* 1.5 * Money(100), and an overflow that panics.
C5_Witness ==
    \/ /\ Called("mul_reversed")
       /\ k = Fin("f64", FALSE, NatOf(3), -1)
       /\ self = Money(100)
       /\ out.kind = "value"
    \/ /\ Called("mul_reversed")
       /\ k.ty = "u8"
       /\ self = MAX_INNER
       /\ out.kind = "panic"
(***************************************************************************)
(* The accepted notation read off the input itself: the sign marker, the   *)
(* optional "$", the whole part up to the first "." and the fractional     *)
(* part after it.                                                          *)
(***************************************************************************)
SignChars == {"-", "(", ")"}

HasSignChar(s) == \E i \in 1..Len(s) : s[i] \in SignChars

NotationOf(s) ==
    IF Len(s) >= 1 /\ s[1] = "-" THEN "minus"
    ELSE IF Len(s) >= 2 /\ s[1] = "(" /\ s[Len(s)] = ")" THEN "paren"
    ELSE "plain"

BodyOf(s) ==
    CASE NotationOf(s) = "minus" -> SubSeq(s, 2, Len(s))
      [] NotationOf(s) = "paren" -> SubSeq(s, 2, Len(s) - 1)
      [] OTHER -> s

Unpriced(b) == IF Len(b) >= 1 /\ b[1] = "$" THEN Tail(b) ELSE b

Points(u) == {i \in 1..Len(u) : u[i] = "."}

WholeOf(s) ==
    LET u == Unpriced(BodyOf(s))
    IN  IF Points(u) = {} THEN u ELSE SubSeq(u, 1, MinOf(Points(u)) - 1)

FracOf(s) ==
    LET u == Unpriced(BodyOf(s))
    IN  IF Points(u) = {} THEN <<>> ELSE SubSeq(u, MinOf(Points(u)) + 1, Len(u))

StructurallyValid(s) ==
    /\ \A i \in 1..Len(WholeOf(s)) : WholeOf(s)[i] \in AsciiDigits \cup {","}
    /\ \A i \in 1..Len(FracOf(s)) : FracOf(s)[i] \in AsciiDigits

\* W: the digits of the whole part, commas aside; an empty whole part is 0.
WholeValue(s) ==
    LET digits == SelectSeq(WholeOf(s), LAMBDA c : c # ",")
    IN  IF Len(digits) = 0 THEN <<0>>
        ELSE FromDigits([i \in 1..Len(digits) |-> DigitValue(digits[i])])

\* C: nothing is 0, one or two digits are read as they stand, three or more
\* are the first two plus one when the third is 5 or more.
RoundedCents(s) ==
    LET f == FracOf(s)
    IN  CASE Len(f) = 0 -> 0
          [] Len(f) = 1 -> DigitValue(f[1])
          [] Len(f) = 2 -> 10 * DigitValue(f[1]) + DigitValue(f[2])
          [] OTHER -> 10 * DigitValue(f[1]) + DigitValue(f[2])
                        + (IF DigitValue(f[3]) >= 5 THEN 1 ELSE 0)

\* s * (W * 100 + C)
SignedTotal(s) ==
    MkZ(NotationOf(s) # "plain",
        NatAdd(NatMulSmall(WholeValue(s), 100), NatOf(RoundedCents(s))))

\* The input without the fractional digits after the third.
CutToThree(s) ==
    LET point == MinOf(Points(s))
    IN  SubSeq(s, 1, point + 3) \o (IF NotationOf(s) = "paren" THEN <<")">> ELSE <<>>)

Parsed(s) == Called("parse_str") /\ input = s

(***************************************************************************)
(* C6: an input with "-", "(" or ")" anywhere but as a leading "-" or as   *)
(* parentheses around the whole input is rejected with InvalidString.      *)
(* Violated: the sign regexes are not anchored, so "5-" is Money(0),       *)
(* "12-34" is Money(-3400) and "x(100)y" is Money(-10000).                 *)
(***************************************************************************)
C6_StraySignRejected ==
    (Called("parse_str") /\ HasSignChar(BodyOf(input))) =>
        out = Failed("InvalidString")

(***************************************************************************)
(* C7: a structurally valid input with sign s, whole part W and rounded    *)
(* cents C parses to Money(s * (W * 100 + C)) exactly when that value is   *)
(* an i64, and to OutOfRange otherwise; the boundary strings of the tests  *)
(* parse to max() and min(), one hundredth further is OutOfRange.          *)
(***************************************************************************)
C7_ParsedValueOrOutOfRange ==
    /\ (Called("parse_str") /\ StructurallyValid(input)) =>
          out = IF InI64(SignedTotal(input))
                THEN Returned(SignedTotal(input))
                ELSE Failed("OutOfRange")
    /\ Parsed(<<"9", "2", "2", "3", "3", "7", "2", "0", "3", "6", "8", "5", "4", "7", "7", "5", "8", ".", "0", "7">>) => out = Returned(MAX_INNER)
    /\ Parsed(<<"-", "9", "2", "2", "3", "3", "7", "2", "0", "3", "6", "8", "5", "4", "7", "7", "5", "8", ".", "0", "8">>) => out = Returned(MIN_INNER)
    /\ Parsed(<<"9", "2", "2", "3", "3", "7", "2", "0", "3", "6", "8", "5", "4", "7", "7", "5", "8", ".", "0", "7", "5">>) => out = Failed("OutOfRange")
    /\ Parsed(<<"-", "9", "2", "2", "3", "3", "7", "2", "0", "3", "6", "8", "5", "4", "7", "7", "5", "8", ".", "0", "8", "5">>) => out = Failed("OutOfRange")

\* "-92233720368547758.08" is Money::min().
C7_Witness == Parsed(<<"-", "9", "2", "2", "3", "3", "7", "2", "0", "3", "6", "8", "5", "4", "7", "7", "5", "8", ".", "0", "8">>) /\ out = Returned(MIN_INNER)

(***************************************************************************)
(* C8: every Money v renders to a text that parses back to Ok(v): min(),   *)
(* max(), zero and the negative values above -100 included.                *)
(***************************************************************************)
C8_RoundTrip ==
    /\ op = "to_string" => out.kind = "text"
    /\ Called("parse_displayed") => out = Returned(self)

\* Money::min() and Money(-5) came back.
C8_Witness ==
    /\ Called("parse_displayed")
    /\ self \in {MIN_INNER, Money(-5)}
    /\ out = Returned(self)

(***************************************************************************)
(* C9: to_string never fails and gives sign, "$", the decimal rendering of *)
(* floor(|raw| / 100), ".", and |raw| mod 100 in exactly two digits, the   *)
(* sign being "-" iff raw < 0.                                             *)
(***************************************************************************)
C9_DisplayShape ==
    /\ op \in {"to_string", "parse_displayed"} =>
          LET parts == NatDivMod(self.mag, <<100>>)
              cents == parts.r[1]
          IN  text = (IF self.neg THEN <<"-">> ELSE <<>>) \o <<"$">>
                        \o FormatNat(parts.q) \o <<".">>
                        \o <<DigitChar(cents \div 10), DigitChar(cents % 10)>>
    /\ op = "to_string" => out.kind = "text"
    /\ (op = "to_string" /\ self = MIN_INNER) => text = <<"-", "$", "9", "2", "2", "3", "3", "7", "2", "0", "3", "6", "8", "5", "4", "7", "7", "5", "8", ".", "0", "8">>
    /\ (op = "to_string" /\ self = Money(-5)) => text = <<"-", "$", "0", ".", "0", "5">>

\* Money::min() rendered where overflow is checked.
C9_Witness ==
    /\ pc = "shown"
    /\ checks
    /\ self = MIN_INNER
    /\ text = <<"-", "$", "9", "2", "2", "3", "3", "7", "2", "0", "3", "6", "8", "5", "4", "7", "7", "5", "8", ".", "0", "8">>

(***************************************************************************)
(* C10: with three or more fractional digits the cents are the first two   *)
(* digits plus one when the third is 5 or more; the digits after the third *)
(* change nothing, and a carry out of 99 adds a whole unit: "0.995" is     *)
(* Money(100).                                                             *)
(***************************************************************************)
C10_ThirdDigitRounds ==
    /\ (Called("parse_str") /\ StructurallyValid(input) /\ Len(FracOf(input)) >= 3) =>
          /\ out = parse_str(checks, CutToThree(input))
          /\ out.kind = "value" =>
                out.val.mag = NatAdd(NatMulSmall(WholeValue(input), 100),
                                     NatOf(RoundedCents(input)))
    /\ Parsed(<<"0", ".", "9", "9", "5">>) => out = Returned(Money(100))

\* "0.9950": a fourth digit and a carry into the whole part.
C10_Witness == Parsed(<<"0", ".", "9", "9", "5", "0">>) /\ out = Returned(Money(100))
\* The input with a "0" put in front of its fractional digits.
ZeroBeforeFraction(s) ==
    LET point == MinOf(Points(s))
    IN  SubSeq(s, 1, point) \o <<"0">> \o SubSeq(s, point + 1, Len(s))

(***************************************************************************)
(* C11: a single fractional digit d is d cents, not d tenths: "W.d" parses *)
(* as "W.0d" does, to Money(W * 100 + d) when that is an i64; "9.8" is     *)
(* Money(908).                                                             *)
(***************************************************************************)
C11_SingleDigitIsCents ==
    /\ (Called("parse_str") /\ StructurallyValid(input) /\ Len(FracOf(input)) = 1) =>
          /\ out = parse_str(checks, ZeroBeforeFraction(input))
          /\ LET total == MkZ(FALSE, NatAdd(NatMulSmall(WholeValue(input), 100),
                                            <<DigitValue(FracOf(input)[1])>>))
             IN  (NotationOf(input) = "plain" /\ InI64(total)) => out = Returned(total)
    /\ Parsed(<<"9", ".", "8">>) => out = Returned(Money(908))

\* "9.8" is nine units and eight cents.
C11_Witness == Parsed(<<"9", ".", "8">>) /\ out = Returned(Money(908))
WithoutCommas(s) == SelectSeq(s, LAMBDA c : c # ",")

\* Digits and commas before the ".", digits and at least one comma after it.
CommaInFraction(s) ==
    /\ \A i \in 1..Len(WholeOf(s)) : WholeOf(s)[i] \in AsciiDigits \cup {","}
    /\ \A i \in 1..Len(FracOf(s)) : FracOf(s)[i] \in AsciiDigits \cup {","}
    /\ \E i \in 1..Len(FracOf(s)) : FracOf(s)[i] = ","

(***************************************************************************)
(* C12: commas in the whole part are ignored wherever they stand: the      *)
(* input parses as it does with its commas deleted.  A comma in the        *)
(* fractional part is rejected with InvalidString.                         *)
(***************************************************************************)
C12_CommasIgnored ==
    /\ (Called("parse_str") /\ StructurallyValid(input)) =>
          out = parse_str(checks, WithoutCommas(input))
    /\ (Called("parse_str") /\ CommaInFraction(input)) =>
          out = Failed("InvalidString")

\* ",1,,2," is twelve units.
C12_Witness ==
    /\ Parsed(<<",", "1", ",", ",", "2", ",">>)
    /\ out = Returned(Money(1200))
(***************************************************************************)
(* C13: parse_str ends with Ok(Money) or Err(Error) for every input and    *)
(* never panics.  Violated: the regex's \d admits non-ASCII digits, and    *)
(* round_cents slices the fractional part at byte offsets 3 and 2, inside  *)
(* such a digit.                                                           *)
(***************************************************************************)
C13_NeverPanics ==
    Called("parse_str") => out.kind \in {"value", "err"}
\* The two's complement of an i64 as a natural number below 2^64.
TwosComplement(z) == IF z.neg THEN NatSub(TwoPow64, z.mag) ELSE z.mag

\* One call of to_sql: eight bytes after what the buffer held, the big-endian
\* two's complement of the raw value.
AppendsEncoding ==
    pc' = "written" =>
        /\ Len(w') = Len(w) + 8
        /\ SubSeq(w', 1, Len(w)) = w
        /\ BigEndian(SubSeq(w', Len(w) + 1, Len(w) + 8), 8) = TwosComplement(self')
        /\ out' = IsNullNo

(***************************************************************************)
(* C14: to_sql appends exactly eight bytes, the big-endian two's           *)
(* complement of the raw value; from_sql fails on every buffer that is not *)
(* eight bytes long and otherwise returns the Money with that raw value,   *)
(* so from_sql(to_sql(v)) = v.                                             *)
(***************************************************************************)
C14_WireCodec ==
    /\ [][AppendsEncoding]_vars
    /\ [](Called("from_sql") =>
            IF Len(buf) = 8
            THEN /\ out.kind = "value"
                 /\ InI64(out.val)
                 /\ TwosComplement(out.val) = BigEndian(buf, 8)
            ELSE out.kind = "err")
    /\ [](Called("from_sql_written") =>
            IF Len(buf) = 8 THEN out = Returned(self) ELSE out.kind = "err")
    /\ [](Called("from_sql") =>
            /\ buf = <<0, 0, 0, 0, 0, 0, 0, 1>> => out = Returned(Money(1))
            /\ buf = <<255, 255, 255, 255, 255, 255, 255, 255>> => out = Returned(Money(-1))
            /\ buf = <<128, 0, 0, 0, 0, 0, 0, 0>> => out = Returned(MIN_INNER)
            /\ buf = <<127, 255, 255, 255, 255, 255, 255, 255>> => out = Returned(MAX_INNER))

\* Money::min() written and read back.
C14_Witness ==
    /\ Called("from_sql_written")
    /\ self = MIN_INNER
    /\ buf = <<128, 0, 0, 0, 0, 0, 0, 0>>
    /\ out = Returned(MIN_INNER)
WholeDigits(s) == SelectSeq(WholeOf(s), LAMBDA c : c # ",")

\* The digits of the whole part from its first non-zero digit on.
SignificantDigits(s) ==
    LET d == WholeDigits(s)
        nonzero == {i \in 1..Len(d) : d[i] # "0"}
    IN  IF nonzero = {} THEN 0 ELSE Len(d) - MinOf(nonzero) + 1

EighteenDigits == Chars(<<1,2,3,4,5,6,7,8,9,0,1,2,3,4,5,6,7,8>>)

(***************************************************************************)
(* C15 as stated: a whole part of 18 or more digits, commas aside, is      *)
(* OutOfRange whatever the digits.  Violated: leading zeros count as       *)
(* digits, and "000000000000000001" is one unit.                           *)
(***************************************************************************)
C15_EighteenDigitsOutOfRange ==
    (Called("parse_str") /\ StructurallyValid(input) /\ Len(WholeDigits(input)) >= 18) =>
        out = Failed("OutOfRange")

(***************************************************************************)
(* C15 amended: a whole part that has 18 or more digits after its commas   *)
(* and its leading zeros are removed is OutOfRange, in the plain, the "-"  *)
(* and the parenthesized notation, whatever the digits; leading zeros do   *)
(* not count, "000000000000000001" is Money(100).                          *)
(***************************************************************************)
C15_EighteenSignificantDigits ==
    /\ (Called("parse_str") /\ StructurallyValid(input) /\ SignificantDigits(input) >= 18) =>
          out = Failed("OutOfRange")
    /\ Parsed(Chars(<<0,0,0,0,0,0,0,0,0,0,0,0,0,0,0,0,0,1>>)) =>
          out = Returned(Money(100))

\* "(123456789012345678)" is out of range.
C15_Witness ==
    /\ Parsed(Signed("paren", EighteenDigits))
    /\ out = Failed("OutOfRange")
\* W * 100 + C, the magnitude the input denotes.
Magnitude(s) == NatAdd(NatMulSmall(WholeValue(s), 100), NatOf(RoundedCents(s)))

NegativeInput == Called("parse_str") /\ StructurallyValid(input) /\ NotationOf(input) # "plain"

MinBody == <<"9", "2", "2", "3", "3", "7", "2", "0", "3", "6", "8", "5", "4", "7", "7", "5", "8", ".", "0", "8">>

(***************************************************************************)
(* C16 as stated: the unsigned total of a negative input is range-checked  *)
(* before it is negated, so a magnitude above i64::MAX, 2^63 included, is  *)
(* OutOfRange.  Violated: "-92233720368547758.08" is Money::min().         *)
(***************************************************************************)
C16_UnsignedTotalChecked ==
    (NegativeInput /\ NatLess(MAX_INNER.mag, Magnitude(input))) =>
        out = Failed("OutOfRange")

(***************************************************************************)
(* C16 amended: the sign is applied to the whole part and to the rounded   *)
(* cents before they are combined, and the signed total is range-checked:  *)
(* a negative input is OutOfRange exactly when its magnitude exceeds 2^63, *)
(* and the magnitude 2^63 itself is Money::min().                          *)
(***************************************************************************)
C16_SignedTotalChecked ==
    /\ NegativeInput =>
          IF NatLess(MIN_INNER.mag, Magnitude(input))
          THEN out = Failed("OutOfRange")
          ELSE out.kind = "value" /\ out.val.mag = Magnitude(input)
    /\ (NegativeInput /\ BodyOf(input) = MinBody) => out = Returned(MIN_INNER)

\* "(92233720368547758.08)" is Money::min().
C16_Witness == Parsed(Signed("paren", MinBody)) /\ out = Returned(MIN_INNER)
(***************************************************************************)
(* C17: for a body b without "-", "(" and ")", "(b)" and "-b" parse to the *)
(* same result, Money(-x) when b parses to Money(x); a zero magnitude with *)
(* a negative marker is Money(0).  Violated: "." in the sign regexes does  *)
(* not match a line feed, so "-b" is parsed up to the line feed and "(b)"  *)
(* is rejected.                                                            *)
(***************************************************************************)
C17_NegativeNotationsAgree ==
    /\ (Called("parse_str") /\ NotationOf(input) # "plain" /\ ~HasSignChar(BodyOf(input))) =>
          LET b == BodyOf(input)
              plain == parse_str(checks, b)
          IN  /\ out = parse_str(checks, Signed("minus", b))
              /\ out = parse_str(checks, Signed("paren", b))
              /\ plain.kind = "value" => out = Returned(ZSub(ZZero, plain.val))
    /\ Parsed(<<"-", "0">>) => out = Returned(Money(0))
    /\ Parsed(<<"(", "0", ".", "0", "0", ")">>) => out = Returned(Money(0))
    /\ Parsed(<<"-">>) => out = Returned(Money(0))
====
